---- MODULE Spec2Model ----
(***************************************************************************)
(* A model of the notes application of src/src/main.rs: the in-memory note *)
(* store (NotesApp), its three store methods (add_note, delete_selected,   *)
(* move_note), the list filter, the drag gesture of the list, the editor   *)
(* buttons, the notes file and the end-of-frame auto-save of               *)
(* NotesApp::update.                                                       *)
(*                                                                         *)
(* Conventions.  Rust's Option<T> is a sequence of length 0 (None) or 1    *)
(* (Some(x) is <<x>>).  A String is a sequence of one-character strings.   *)
(* Vec indices are 0-based as in the source; At(v, i) reads v[i].          *)
(***************************************************************************)
EXTENDS Integers, Sequences, FiniteSets, TLC

VARIABLES
    notes,           \* NotesApp.notes: Vec<Note>
    selected,        \* NotesApp.selected: Option<usize>
    search,          \* NotesApp.search: String
    auto_save,       \* NotesApp.settings.auto_save
    dirty,           \* NotesApp.dirty
    dragging,        \* NotesApp.dragging: Option<usize>
    drag_start_pos,  \* NotesApp.drag_start_pos: Option<Pos2>
    current_view,    \* NotesApp.current_view
    file,            \* the contents of the notes file at data_path
    filtered_notes,  \* the frame-local filtered_notes of the last list render
    egui_dragged,    \* the list row egui holds as being dragged (pointer down)
    last,            \* the last store method called, its arguments and pre-state
    frame,           \* what the last frame of update() did
    hist             \* what is remembered of the session so far (see NoHist)

vars == <<notes, selected, search, auto_save, dirty, dragging, drag_start_pos,
          current_view, file, filtered_notes, egui_dragged, last, frame, hist>>

-----------------------------------------------------------------------------
(* Bounds of the model. *)

\* The store never grows past MaxNotes notes (add is disabled at the cap).
MaxNotes == 3

\* The sessions explored are at most MaxFrames frames (and restarts) long.
MaxFrames == 5

\* The ids rand::random::<u128>() may return, and the reading of
\* current_unix() during the session (the notes of an earlier session carry
\* an earlier time).
IdPool == {1, 2}
Clock == {20}

-----------------------------------------------------------------------------
(* Option, Vec and String helpers. *)

None == <<>>
Some(x) == <<x>>
IsSome(o) == Len(o) = 1
Unwrap(o) == o[1]

At(v, i) == v[i + 1]

\* Vec::remove(i): the elements after i shift left.
VecRemove(v, i) == SubSeq(v, 1, i) \o SubSeq(v, i + 2, Len(v))

\* Vec::insert(i, x): the elements from i on shift right.
VecInsert(v, i, x) == SubSeq(v, 1, i) \o <<x>> \o SubSeq(v, i + 1, Len(v))

Min(a, b) == IF a <= b THEN a ELSE b

\* if let Some(idx) = o { if idx < v.len() { .. } }
ValidIndex(o, v) == IsSome(o) /\ Unwrap(o) < Len(v)

UpperChars == <<"A", "B", "C", "D", "E", "F", "G", "H", "I", "J", "K", "L", "M",
                "N", "O", "P", "Q", "R", "S", "T", "U", "V", "W", "X", "Y", "Z">>
LowerChars == <<"a", "b", "c", "d", "e", "f", "g", "h", "i", "j", "k", "l", "m",
                "n", "o", "p", "q", "r", "s", "t", "u", "v", "w", "x", "y", "z">>

\* char::to_lowercase on the ASCII letters; every other character is kept.
LowerChar(c) ==
    IF \E k \in 1..Len(UpperChars) : UpperChars[k] = c
    THEN LowerChars[CHOOSE k \in 1..Len(UpperChars) : UpperChars[k] = c]
    ELSE c

\* str::to_lowercase
to_lowercase(s) == [k \in 1..Len(s) |-> LowerChar(s[k])]

\* str::contains(&str): some window of the haystack equals the needle.
contains(hay, needle) ==
    \E off \in 0..(Len(hay) - Len(needle)) :
        SubSeq(hay, off + 1, off + Len(needle)) = needle

DigitChars == <<"0", "1", "2", "3", "4", "5", "6", "7", "8", "9">>

\* The decimal rendering of a usize by format!("{}").
RECURSIVE ToDecimal(_)
ToDecimal(n) ==
    IF n < 10 THEN <<DigitChars[n + 1]>>
    ELSE ToDecimal(n \div 10) \o <<DigitChars[(n % 10) + 1]>>

-----------------------------------------------------------------------------
(* Note and the store methods of NotesApp. *)

Untitled == <<"U", "n", "t", "i", "t", "l", "e", "d">>

\* Note::new(id), with `now` the reading of current_unix().
NoteNew(id, now) ==
    [id |-> id, title |-> Untitled, body |-> <<>>, modified |-> now,
     editing |-> FALSE, backup |-> None]

\* format!("Note {}", n)
NoteTitle(n) == <<"N", "o", "t", "e", " ">> \o ToDecimal(n)

\* The part of NotesApp the store methods read and write (self), together
\* with the notes file the save writes.
\* saved is what the save_notes calls of the current frame reported: "none"
\* (no call), "ok", or "failed" (the eprintln! of line 140).
Self ==
    [notes |-> notes, selected |-> selected, dirty |-> dirty, file |-> file,
     saved |-> "none"]

\* An add that pushes the new note at the back and selects it there.
add_note_Push(self, id, now) ==
    LET note == [NoteNew(id, now) EXCEPT !.title = NoteTitle(Len(self.notes) + 1)]
    IN [self EXCEPT !.notes = Append(self.notes, note),
                    !.selected = Some(Len(self.notes)),
                    !.dirty = TRUE]

\* NotesApp::add_note, with the id drawn by rand::random and the clock reading.
add_note(self, id, now) ==
    LET note == [NoteNew(id, now) EXCEPT !.title = NoteTitle(Len(self.notes) + 1)]
    IN [self EXCEPT !.notes = VecInsert(self.notes, 0, note),
                    !.selected = Some(0),
                    !.dirty = TRUE]

\* A delete that forgets to re-derive the selection.
delete_selected_KeepIndex(self) ==
    IF IsSome(self.selected) /\ Unwrap(self.selected) < Len(self.notes)
    THEN [self EXCEPT !.notes = VecRemove(self.notes, Unwrap(self.selected)),
                      !.dirty = TRUE]
    ELSE self

\* A delete that keeps the selection near the removed row instead of the top.
delete_selected_Clamp(self) ==
    IF IsSome(self.selected) /\ Unwrap(self.selected) < Len(self.notes)
    THEN LET idx == Unwrap(self.selected)
             rest == VecRemove(self.notes, idx)
         IN [self EXCEPT !.notes = rest,
                         !.selected = IF rest = <<>> THEN None
                                      ELSE Some(Min(idx, Len(rest) - 1)),
                         !.dirty = TRUE]
    ELSE self

\* A delete that leaves nothing selected.
delete_selected_Deselect(self) ==
    IF IsSome(self.selected) /\ Unwrap(self.selected) < Len(self.notes)
    THEN [self EXCEPT !.notes = VecRemove(self.notes, Unwrap(self.selected)),
                      !.selected = None,
                      !.dirty = TRUE]
    ELSE self

\* NotesApp::delete_selected
delete_selected(self) ==
    IF IsSome(self.selected) /\ Unwrap(self.selected) < Len(self.notes)
    THEN LET idx == Unwrap(self.selected)
             rest == VecRemove(self.notes, idx)
         IN [self EXCEPT !.notes = rest,
                         !.selected = IF rest = <<>> THEN None ELSE Some(Min(0, idx)),
                         !.dirty = TRUE]
    ELSE self

\* A move whose selection follows only the moved note: the notes between
\* from and to keep their old index.
move_note_NoShift(self, from, to) ==
    IF from # to /\ from < Len(self.notes) /\ to < Len(self.notes)
    THEN LET note == At(self.notes, from)
             moved == VecInsert(VecRemove(self.notes, from), to, note)
             sel == IF IsSome(self.selected) /\ Unwrap(self.selected) = from
                    THEN Some(to) ELSE self.selected
         IN [self EXCEPT !.notes = moved, !.selected = sel, !.dirty = TRUE]
    ELSE self

\* A move that swaps the notes at from and to instead of relocating one.
move_note_Swap(self, from, to) ==
    IF from # to /\ from < Len(self.notes) /\ to < Len(self.notes)
    THEN LET swapped == [k \in 1..Len(self.notes) |->
                            IF k = from + 1 THEN At(self.notes, to)
                            ELSE IF k = to + 1 THEN At(self.notes, from)
                            ELSE self.notes[k]]
             sel == IF IsSome(self.selected) /\ Unwrap(self.selected) = from
                    THEN Some(to)
                    ELSE IF IsSome(self.selected) /\ Unwrap(self.selected) = to
                    THEN Some(from) ELSE self.selected
         IN [self EXCEPT !.notes = swapped, !.selected = sel, !.dirty = TRUE]
    ELSE self

\* NotesApp::move_note
move_note(self, from, to) ==
    IF from # to /\ from < Len(self.notes) /\ to < Len(self.notes)
    THEN LET note == At(self.notes, from)
             moved == VecInsert(VecRemove(self.notes, from), to, note)
             sel == IF IsSome(self.selected)
                    THEN LET selected_idx == Unwrap(self.selected)
                         IN IF selected_idx = from THEN Some(to)
                            ELSE IF selected_idx > from /\ selected_idx <= to
                                 THEN Some(selected_idx - 1)
                            ELSE IF selected_idx < from /\ selected_idx >= to
                                 THEN Some(selected_idx + 1)
                            ELSE self.selected
                    ELSE self.selected
         IN [self EXCEPT !.notes = moved, !.selected = sel, !.dirty = TRUE]
    ELSE self

-----------------------------------------------------------------------------
(* The notes file: serde_json of Vec<Note>, load_notes and save_notes. *)

\* The value of a decimal digit character.
DigitValue(c) == (CHOOSE k \in 1..Len(DigitChars) : DigitChars[k] = c) - 1

\* The number a run of decimal digits denotes.
RECURSIVE FromDecimal(_)
FromDecimal(ds) ==
    IF Len(ds) = 0 THEN 0
    ELSE 10 * FromDecimal(SubSeq(ds, 1, Len(ds) - 1)) + DigitValue(ds[Len(ds)])

\* #[derive(Serialize)] for Note: one JSON object, its members in the order
\* of the struct's fields, the integers as decimal numbers.
SerializeNote(n) ==
    << <<"id", ToDecimal(n.id)>>,
       <<"title", n.title>>,
       <<"body", n.body>>,
       <<"modified", ToDecimal(n.modified)>>,
       <<"editing", n.editing>>,
       <<"backup", n.backup>> >>

\* serde_json::to_string_pretty(notes): a JSON array of the objects.
to_string_pretty(ns) == [k \in 1..Len(ns) |-> SerializeNote(ns[k])]

\* The value of member `key` of a JSON object.
Member(obj, key) == obj[CHOOSE k \in 1..Len(obj) : obj[k][1] = key][2]

\* A Deserialize that skips the modified member and takes its default.
DeserializeNote_SkipModified(obj) ==
    [id |-> FromDecimal(Member(obj, "id")),
     title |-> Member(obj, "title"),
     body |-> Member(obj, "body"),
     modified |-> 0,
     editing |-> Member(obj, "editing"),
     backup |-> Member(obj, "backup")]

\* #[derive(Deserialize)] for Note.
DeserializeNote(obj) ==
    [id |-> FromDecimal(Member(obj, "id")),
     title |-> Member(obj, "title"),
     body |-> Member(obj, "body"),
     modified |-> FromDecimal(Member(obj, "modified")),
     editing |-> Member(obj, "editing"),
     backup |-> Member(obj, "backup")]

\* serde_json::from_str::<Vec<Note>>(data)
from_str(data) == [k \in 1..Len(data) |-> DeserializeNote(data[k])]

Malformed == [kind |-> "malformed", data |-> <<>>]

Ok(v) == [ok |-> TRUE, val |-> v]
Err == [ok |-> FALSE, val |-> <<>>]

\* A load_notes without the path.exists() test: reading a missing file is
\* an Err like any other failed read.
load_notes_MissingIsErr(f) ==
    IF f.kind \in {"absent", "malformed"} THEN Err
    ELSE Ok(from_str(f.data))

\* load_notes(path): a missing file is Ok(vec![]); text that does not parse
\* is an Err.
load_notes(f) ==
    IF f.kind = "absent" THEN Ok(<<>>)
    ELSE IF f.kind = "malformed" THEN Err
    ELSE Ok(from_str(f.data))

\* Result::unwrap_or_default
unwrap_or_default(r) == IF r.ok THEN r.val ELSE <<>>

\* What fs::write may do: write the whole text ("ok"), fail before touching
\* the file ("err_open"), or fail after truncating it ("err_write").
IoOutcomes == {"ok", "err_open", "err_write"}

\* save_notes(path, notes): the file afterwards, and the Result.
write_notes(f, ns, io) ==
    IF io = "ok" THEN [file |-> [kind |-> "json", data |-> to_string_pretty(ns)], res |-> Ok(<<>>)]
    ELSE IF io = "err_open" THEN [file |-> f, res |-> Err]
    ELSE [file |-> Malformed, res |-> Err]

\* A save that clears dirty whether or not the write succeeded.
save_notes_AlwaysClean(self, io) ==
    LET w == write_notes(self.file, self.notes, io)
    IN [self EXCEPT !.file = w.file, !.dirty = FALSE,
                    !.saved = IF w.res.ok THEN "ok" ELSE "failed"]

\* NotesApp::save_notes
save_notes(self, io) ==
    LET w == write_notes(self.file, self.notes, io)
    IN IF ~w.res.ok
       THEN [self EXCEPT !.file = w.file, !.saved = "failed"]
       ELSE [self EXCEPT !.file = w.file, !.saved = "ok", !.dirty = FALSE]

-----------------------------------------------------------------------------
(* Startup. *)

Absent == [kind |-> "absent", data |-> <<>>]

\* No frame has run yet.
NoFrame(n) ==
    [op |-> "default", count |-> n, start_dirty |-> FALSE, tail_dirty |-> FALSE,
     click_save |-> "none", auto_save |-> "none", notes_kept |-> TRUE,
     store_kept |-> TRUE, gesture |-> None, pointer |-> None, move |-> None,
     undo |-> None]

\* What is remembered of a session that starts with the notes ns: no drag
\* gesture is in progress; the notes file, if it is whole, was last written
\* from ns; of no note is it known what its body was, and where in the list
\* it was, when Edit was clicked.
NoHist(ns) ==
    [gesture |-> None, saved |-> Some(ns), snap |-> [k \in 1..Len(ns) |-> None]]

\* The notes an earlier session left in the notes file: two notes added one
\* after the other.
SavedNotes ==
    LET empty == [notes |-> <<>>, selected |-> None, dirty |-> FALSE,
                  file |-> Absent, saved |-> "none"]
    IN add_note(add_note(empty, 1, 10), 2, 10).notes

\* NotesApp::default, on a machine with no notes file or with the file of an
\* earlier session: the notes are those load_notes returns, the first note,
\* if any, is selected, nothing is dirty, no drag is active.
Init ==
    /\ file \in {Absent, [kind |-> "json", data |-> to_string_pretty(SavedNotes)]}
    /\ notes = unwrap_or_default(load_notes(file))
    /\ selected = IF notes = <<>> THEN None ELSE Some(0)
    /\ search = <<>>
    /\ auto_save = TRUE
    /\ dirty = FALSE
    /\ dragging = None
    /\ drag_start_pos = None
    /\ current_view = "Notes"
    /\ filtered_notes = <<>>
    /\ egui_dragged = None
    /\ last = [op |-> "default"]
    /\ frame = NoFrame(0)
    /\ hist = NoHist(notes)

Commit(s) ==
    /\ notes' = s.notes
    /\ selected' = s.selected
    /\ dirty' = s.dirty
    /\ file' = s.file

Pre == [notes |-> notes, selected |-> selected, dirty |-> dirty]

-----------------------------------------------------------------------------
(* The store methods called one at a time, as a test of the store calls    *)
(* them: any sequence of add_note, delete_selected and move_note.          *)

CallAddNote ==
    /\ Len(notes) < MaxNotes
    /\ \E id \in IdPool, now \in Clock :
          /\ Commit(add_note(Self, id, now))
          /\ last' = [op |-> "add_note", id |-> id, pre |-> Pre]
    /\ UNCHANGED <<search, auto_save, dragging, drag_start_pos, current_view,
                   filtered_notes, egui_dragged, frame, hist>>

CallDeleteSelected ==
    /\ Commit(delete_selected(Self))
    /\ last' = [op |-> "delete_selected", pre |-> Pre]
    /\ UNCHANGED <<search, auto_save, dragging, drag_start_pos, current_view,
                   filtered_notes, egui_dragged, frame, hist>>

CallMoveNote ==
    /\ \E from \in 0..MaxNotes, to \in 0..MaxNotes :
          /\ Commit(move_note(Self, from, to))
          /\ last' = [op |-> "move_note", from |-> from, to |-> to, pre |-> Pre]
    /\ UNCHANGED <<search, auto_save, dragging, drag_start_pos, current_view,
                   filtered_notes, egui_dragged, frame, hist>>

NextStore == CallAddNote \/ CallDeleteSelected \/ CallMoveNote

SpecStore == Init /\ [][NextStore]_vars

-----------------------------------------------------------------------------
(* The list filter of the left panel (update, lines 350-361). *)

\* The closure of .filter(): q is the lowercased search text.
filter_matches(n, srch) ==
    LET q == to_lowercase(srch)
    IN \/ q = <<>>
       \/ contains(to_lowercase(n.title), q)
       \/ contains(to_lowercase(n.body), q)

\* A filter that compares the lowercased texts with the search text as typed.
filter_collect_RawQuery(ns, srch, i) ==
    LET RECURSIVE go(_)
        go(k) ==
            IF k >= Len(ns) THEN <<>>
            ELSE (IF \/ srch = <<>>
                     \/ contains(to_lowercase(At(ns, k).title), srch)
                     \/ contains(to_lowercase(At(ns, k).body), srch)
                  THEN << <<k, At(ns, k).title, At(ns, k).id>> >>
                  ELSE <<>>) \o go(k + 1)
    IN go(i)

\* .iter().enumerate().filter(..).map(|(i, n)| (i, n.title.clone(), n.id))
\* .collect(), from index i on.
filter_collect(ns, srch, i) ==
    LET RECURSIVE go(_)
        go(k) ==
            IF k >= Len(ns) THEN <<>>
            ELSE (IF filter_matches(At(ns, k), srch)
                  THEN << <<k, At(ns, k).title, At(ns, k).id>> >>
                  ELSE <<>>) \o go(k + 1)
    IN go(i)

\* The texts a user has in the titles and bodies of the notes file, and the
\* texts typed into the search box.
FilterTitles == {<<"A", "b">>, <<"b">>}
FilterBodies == {<<>>, <<"a", "B">>, <<"B", "a">>}
SearchTexts == {<<>>, <<"a">>, <<"A", "B">>, <<"b">>, <<"B", "A">>, <<"c">>}

\* The number of notes in the notes file the filter is run on.
MaxFilterNotes == 2

\* The k-th note of a notes file whose titles and bodies are given.
FileNote(k, title, body) ==
    [id |-> k, title |-> title, body |-> body, modified |-> 10,
     editing |-> FALSE, backup |-> None]

\* NotesApp::default on a notes file that holds up to MaxFilterNotes notes.
InitFilter ==
    /\ \E n \in 0..MaxFilterNotes :
         \E ts \in [1..n -> FilterTitles], bs \in [1..n -> FilterBodies] :
            /\ notes = [k \in 1..n |-> FileNote(k, ts[k], bs[k])]
            /\ file = [kind |-> "json", data |-> to_string_pretty(notes)]
    /\ selected = IF notes = <<>> THEN None ELSE Some(0)
    /\ search = <<>>
    /\ auto_save = TRUE
    /\ dirty = FALSE
    /\ dragging = None
    /\ drag_start_pos = None
    /\ current_view = "Notes"
    /\ filtered_notes = <<>>
    /\ egui_dragged = None
    /\ last = [op |-> "default"]
    /\ frame = NoFrame(0)
    /\ hist = NoHist(notes)

\* A frame that renders the list with the search text as it stands.
RenderList ==
    /\ filtered_notes' = filter_collect(notes, search, 0)
    /\ frame' = [NoFrame(0) EXCEPT !.op = "render"]
    /\ UNCHANGED <<notes, selected, search, auto_save, dirty, dragging,
                   drag_start_pos, current_view, file, egui_dragged, last, hist>>

\* A frame in which the search box changes (line 344) before the list is
\* filtered.
TypeSearch ==
    /\ \E q \in SearchTexts :
          /\ q # search
          /\ search' = q
          /\ filtered_notes' = filter_collect(notes, q, 0)
    /\ frame' = [NoFrame(0) EXCEPT !.op = "render"]
    /\ UNCHANGED <<notes, selected, auto_save, dirty, dragging,
                   drag_start_pos, current_view, file, egui_dragged, last, hist>>

NextFilter == RenderList \/ TypeSearch

SpecFilter == InitFilter /\ [][NextFilter]_vars

-----------------------------------------------------------------------------
(* The editor of the central panel (update, lines 510-614): the operations *)
(* on the selected note.  as is settings.auto_save.                        *)

SelectedNote(self) == At(self.notes, Unwrap(self.selected))

WithSelectedNote(self, note) ==
    [self EXCEPT !.notes = [self.notes EXCEPT ![Unwrap(self.selected) + 1] = note]]

\* The title text edit changed (lines 517-522).
edit_title(self, text, now, as) ==
    LET s == WithSelectedNote(self,
                 [SelectedNote(self) EXCEPT !.title = text, !.modified = now])
    IN IF as THEN [s EXCEPT !.dirty = TRUE] ELSE s

\* The body text edit changed (lines 539-549).
edit_body(self, text, now, as) ==
    LET s == WithSelectedNote(self,
                 [SelectedNote(self) EXCEPT !.body = text, !.modified = now])
    IN IF as THEN [s EXCEPT !.dirty = TRUE] ELSE s

\* The Save button (lines 585-590) and the save it triggers (610-613).
click_save(self, now, io) ==
    LET s == WithSelectedNote(self,
                 [SelectedNote(self) EXCEPT !.modified = now, !.editing = FALSE,
                                            !.backup = None])
    IN save_notes([s EXCEPT !.dirty = TRUE], io)

\* A Close that leaves the snapshot in place.
click_close_KeepBackup(self) ==
    LET note == SelectedNote(self)
        body == IF IsSome(note.backup) THEN Unwrap(note.backup) ELSE note.body
    IN WithSelectedNote(self, [note EXCEPT !.body = body, !.editing = FALSE])

\* A Close that drops the snapshot without putting it back into the body.
click_close_KeepsBody(self) ==
    WithSelectedNote(self, [SelectedNote(self) EXCEPT !.editing = FALSE,
                                                      !.backup = None])

\* The Close button (lines 591-597).
click_close(self) ==
    LET note == SelectedNote(self)
        body == IF IsSome(note.backup) THEN Unwrap(note.backup) ELSE note.body
    IN WithSelectedNote(self,
           [note EXCEPT !.body = body, !.editing = FALSE, !.backup = None])

\* The Edit button (lines 599-602).
click_edit(self) ==
    LET note == SelectedNote(self)
    IN WithSelectedNote(self,
           [note EXCEPT !.backup = Some(note.body), !.editing = TRUE])

-----------------------------------------------------------------------------
(* The drop of a dragged row (update, lines 454-473). *)

RowOffset == 40
RowPitch == 25
RowHeight == 20
PanelMinWidth == 150
PanelMargin == 10

\* ui.available_width() of the list, at the panel's minimum width.
ListWidth == PanelMinWidth - 2 * PanelMargin

\* target_rect.contains(pointer_pos) for the row at list position k, in
\* coordinates relative to ui.min_rect().left_top(); Rect::contains takes
\* both edges in.
target_rect_contains(k, pos) ==
    /\ 0 <= pos.x /\ pos.x <= ListWidth
    /\ RowOffset + k * RowPitch <= pos.y
    /\ pos.y <= RowOffset + k * RowPitch + RowHeight

\* The for loop of lines 456-469: the first row other than the dragged one
\* whose target_rect holds the pointer gives move_from_to.
drop_target(filtered, from, pointer) ==
    IF ~IsSome(pointer) THEN None
    ELSE LET hits == {k \in 1..Len(filtered) :
                        /\ filtered[k][1] # from
                        /\ target_rect_contains(k - 1, Unwrap(pointer))}
         IN IF hits = {} THEN None
            ELSE LET k == CHOOSE h \in hits : \A g \in hits : h <= g
                 IN Some(<<from, filtered[k][1]>>)

\* ctx.pointer_latest_pos() at the release: none, or a point at, just
\* outside or inside the target_rect of some row, left or right of the list.
PointerPositions ==
    {None, Some([x |-> ListWidth + 1, y |-> RowOffset + RowHeight \div 2])} \cup
    {Some([x |-> ListWidth \div 2, y |-> RowOffset + k * RowPitch + d]) :
        k \in 0..(MaxNotes - 1),
        d \in {-1, 0, RowHeight, RowHeight + 1}}

-----------------------------------------------------------------------------
(* One frame of NotesApp::update per input event, each with the end of the *)
(* frame (lines 622-633).                                                  *)

TypedTitles == {<<"A">>}
TypedBodies == {<<>>, <<"x">>}
TypedSearch == {<<>>, <<"t">>}

\* Lines 622-624: the auto-save.
end_of_frame(self, as, io) ==
    IF self.dirty /\ as THEN save_notes(self, io) ELSE self

\* The rest of a frame whose event left the store as s and auto-save as as:
\* the auto-save, and the record of what the frame did (the frame's event,
\* the dirty flag when the frame began and when it reached line 622, what
\* the Save button's save and the auto-save reported).
\* h is what the event adds to the memory of the session: the gesture
\* and the per-note snapshots after it, and for the frame's record the
\* pointer of a release, the move_from_to the release resolved and the
\* snapshot a Close consumed.
FrameEnd(op, s, as, h) ==
    \E io \in IF s.dirty /\ as THEN IoOutcomes ELSE {"ok"} :
    LET t == end_of_frame([s EXCEPT !.saved = "none"], as, io)
    IN /\ frame.count < MaxFrames
       /\ Commit(t)
       /\ frame' = [op |-> op,
                    count |-> frame.count + 1,
                    start_dirty |-> dirty,
                    tail_dirty |-> s.dirty,
                    click_save |-> s.saved,
                    auto_save |-> t.saved,
                    notes_kept |-> (t.notes = s.notes),
                    store_kept |-> (s.notes = notes /\ s.selected = selected),
                    gesture |-> hist.gesture,
                    pointer |-> h.pointer,
                    move |-> h.move,
                    undo |-> h.undo]
       /\ hist' = [gesture |-> h.gesture,
                   snap |-> h.snap,
                   saved |-> IF t.saved = "ok" THEN Some(t.notes)
                             ELSE IF s.saved = "ok" THEN Some(s.notes)
                             ELSE IF t.file.kind = "malformed" THEN None
                             ELSE hist.saved]

\* An event that leaves the gesture and the snapshots as they are.
Keep ==
    [gesture |-> hist.gesture, snap |-> hist.snap, pointer |-> None,
     move |-> None, undo |-> None]

\* The snapshots with that of the selected note set to v.
SnapSet(v) == [hist.snap EXCEPT ![Unwrap(selected) + 1] = v]

\* What a Close of the selected note has to undo: the note's snapshot, if
\* Edit was clicked in this run, and the body the Close finds.
SnapUndo ==
    LET sn == At(hist.snap, Unwrap(selected))
    IN IF IsSome(sn)
       THEN Some([body |-> Unwrap(sn).body, at |-> Unwrap(sn).at,
                  typed |-> SelectedNote(Self).body])
       ELSE None

\* The snapshots after the drop's move_note: they follow their notes.
SnapAfterMove(move_from_to) ==
    IF IsSome(move_from_to)
    THEN move_note([Self EXCEPT !.notes = hist.snap],
                   Unwrap(move_from_to)[1], Unwrap(move_from_to)[2]).notes
    ELSE hist.snap

InNotesView == current_view = "Notes"
PointerFree == egui_dragged = None
EditorShown == InNotesView /\ ValidIndex(selected, notes)

\* "New" clicked (lines 311-313).
ClickNew ==
    /\ InNotesView /\ PointerFree
    /\ Len(notes) < MaxNotes
    /\ \E id \in IdPool, now \in Clock :
          FrameEnd("New", add_note(Self, id, now), auto_save,
                   [Keep EXCEPT !.snap = VecInsert(hist.snap, 0, None)])
    /\ UNCHANGED <<search, auto_save, dragging, drag_start_pos, current_view,
                   filtered_notes, egui_dragged, last>>

\* "Delete" clicked (lines 314-316).
ClickDelete ==
    /\ InNotesView /\ PointerFree
    /\ FrameEnd("Delete", delete_selected(Self), auto_save,
                   [Keep EXCEPT !.snap = IF ValidIndex(selected, notes)
                                         THEN VecRemove(hist.snap, Unwrap(selected))
                                         ELSE hist.snap])
    /\ UNCHANGED <<search, auto_save, dragging, drag_start_pos, current_view,
                   filtered_notes, egui_dragged, last>>

\* "Notes" or "Settings" clicked in the top bar (lines 301-306).
ClickView ==
    /\ PointerFree
    /\ \E v \in {"Notes", "Settings"} :
          /\ v # current_view
          /\ current_view' = v
          /\ FrameEnd("View", Self, auto_save, Keep)
    /\ UNCHANGED <<search, auto_save, dragging, drag_start_pos,
                   filtered_notes, egui_dragged, last>>

\* The "Auto-save notes" checkbox toggled (lines 232-236), or "Reset to
\* Defaults" clicked (lines 261-266), on the settings page.
ClickAutoSave ==
    /\ current_view = "Settings" /\ PointerFree
    /\ \E as \in {~auto_save, TRUE} :
          /\ auto_save' = as
          /\ FrameEnd("AutoSave", Self, as, Keep)
    /\ UNCHANGED <<search, dragging, drag_start_pos, current_view,
                   filtered_notes, egui_dragged, last>>

\* The search box changed (line 344).
TypeSearchBox ==
    /\ InNotesView
    /\ \E q \in TypedSearch :
          /\ q # search
          /\ search' = q
          /\ FrameEnd("Search", Self, auto_save, Keep)
    /\ UNCHANGED <<auto_save, dragging, drag_start_pos, current_view,
                   filtered_notes, egui_dragged, last>>

\* A row of the list clicked (lines 393-395, 475-480, 489-491).
ClickRow ==
    /\ InNotesView /\ PointerFree
    /\ \E k \in 1..Len(filter_collect(notes, search, 0)) :
          LET to_select == filter_collect(notes, search, 0)[k][1]
          IN FrameEnd("Select", [Self EXCEPT !.selected = Some(to_select)],
                      auto_save, Keep)
    /\ UNCHANGED <<search, auto_save, dragging, drag_start_pos, current_view,
                   filtered_notes, egui_dragged, last>>

\* A drag begins on a row (lines 397-400); rows sense drags only while the
\* search box is empty.  The pointer is inside the row.
DragStart ==
    /\ InNotesView /\ PointerFree
    /\ search = <<>>
    /\ \E original_idx \in 0..(Len(notes) - 1) :
          /\ dragging' = Some(original_idx)
          /\ drag_start_pos' = Some([x |-> ListWidth \div 2,
                                     y |-> RowOffset + original_idx * RowPitch
                                              + RowHeight \div 2])
          /\ egui_dragged' = Some(original_idx)
          /\ FrameEnd("DragStart", Self, auto_save,
                      [Keep EXCEPT !.gesture = Some([origin |-> original_idx,
                                                     order |-> [k \in 1..Len(notes) |-> notes[k].id],
                                                     selected |-> selected,
                                                     escaped |-> FALSE])])
    /\ UNCHANGED <<search, auto_save, current_view, filtered_notes, last>>

\* The pointer is released (lines 454-473, 485-487).  The dragged row sees
\* drag_stopped() only if the list renders it as a draggable row.
PointerRelease ==
    /\ IsSome(egui_dragged)
    /\ egui_dragged' = None
    /\ IF InNotesView /\ search = <<>> /\ Unwrap(egui_dragged) < Len(notes)
          /\ IsSome(dragging)
       THEN \E pointer \in PointerPositions :
               LET filtered == filter_collect(notes, search, 0)
                   move_from_to == drop_target(filtered, Unwrap(dragging), pointer)
                   s == IF IsSome(move_from_to)
                        THEN move_note(Self, Unwrap(move_from_to)[1],
                                       Unwrap(move_from_to)[2])
                        ELSE Self
               IN /\ dragging' = None
                  /\ drag_start_pos' = None
                  /\ FrameEnd("Drop", s, auto_save,
                              [Keep EXCEPT !.gesture = None,
                                           !.pointer = pointer,
                                           !.move = move_from_to,
                                           !.snap = SnapAfterMove(move_from_to)])
       ELSE /\ UNCHANGED <<dragging, drag_start_pos>>
            /\ FrameEnd("Release", Self, auto_save,
                        [Keep EXCEPT !.gesture = None])
    /\ UNCHANGED <<search, auto_save, current_view, filtered_notes, last>>

\* An Escape that forgets the drag's start position only, and leaves the
\* row marked as dragged.
PressEscape_KeepsDragging ==
    /\ IsSome(dragging)
    /\ FrameEnd("Escape", Self, auto_save,
                   [Keep EXCEPT !.gesture =
                       IF IsSome(hist.gesture)
                       THEN Some([Unwrap(hist.gesture) EXCEPT !.escaped = TRUE])
                       ELSE None])
    /\ drag_start_pos' = None
    /\ UNCHANGED <<search, auto_save, current_view, filtered_notes,
                   egui_dragged, last, dragging>>

\* Escape pressed during a drag (lines 630-633); with no drag to cancel the
\* key leaves the frame an idle one.
PressEscape ==
    /\ IsSome(dragging)
    /\ FrameEnd("Escape", Self, auto_save,
                   [Keep EXCEPT !.gesture =
                       IF IsSome(hist.gesture)
                       THEN Some([Unwrap(hist.gesture) EXCEPT !.escaped = TRUE])
                       ELSE None])
    /\ dragging' = None
    /\ drag_start_pos' = None
    /\ UNCHANGED <<search, auto_save, current_view, filtered_notes,
                   egui_dragged, last>>

\* The title of the note being edited changed (lines 514-523).
TypeTitle ==
    /\ EditorShown /\ SelectedNote(Self).editing
    /\ \E text \in TypedTitles, now \in Clock :
          /\ text # SelectedNote(Self).title
          /\ FrameEnd("Title", edit_title(Self, text, now, auto_save), auto_save, Keep)
    /\ UNCHANGED <<search, auto_save, dragging, drag_start_pos, current_view,
                   filtered_notes, egui_dragged, last>>

\* The body of the note being edited changed (lines 533-550).
TypeBody ==
    /\ EditorShown /\ SelectedNote(Self).editing
    /\ \E text \in TypedBodies, now \in Clock :
          /\ text # SelectedNote(Self).body
          /\ FrameEnd("Body", edit_body(Self, text, now, auto_save), auto_save, Keep)
    /\ UNCHANGED <<search, auto_save, dragging, drag_start_pos, current_view,
                   filtered_notes, egui_dragged, last>>

\* "Save" clicked (lines 585-590, 610-613).
ClickSave ==
    /\ EditorShown /\ PointerFree /\ SelectedNote(Self).editing
    /\ \E now \in Clock, io \in IoOutcomes :
          FrameEnd("Save", click_save(Self, now, io), auto_save,
                   [Keep EXCEPT !.snap = SnapSet(None)])
    /\ UNCHANGED <<search, auto_save, dragging, drag_start_pos, current_view,
                   filtered_notes, egui_dragged, last>>

\* "Close" clicked (lines 591-597).
ClickClose ==
    /\ EditorShown /\ PointerFree /\ SelectedNote(Self).editing
    /\ FrameEnd("Close", click_close(Self), auto_save,
                   [Keep EXCEPT !.snap = SnapSet(None),
                                !.undo = SnapUndo])
    /\ UNCHANGED <<search, auto_save, dragging, drag_start_pos, current_view,
                   filtered_notes, egui_dragged, last>>

\* "Edit" clicked (lines 599-602).
ClickEdit ==
    /\ EditorShown /\ PointerFree /\ ~SelectedNote(Self).editing
    /\ FrameEnd("Edit", click_edit(Self), auto_save,
                   [Keep EXCEPT !.snap =
                       SnapSet(Some([body |-> SelectedNote(Self).body,
                                     at |-> Unwrap(selected)]))])
    /\ UNCHANGED <<search, auto_save, dragging, drag_start_pos, current_view,
                   filtered_notes, egui_dragged, last>>

\* A frame without input: only the end of the frame runs.
IdleFrame ==
    /\ FrameEnd("Idle", Self, auto_save, Keep)
    /\ UNCHANGED <<search, auto_save, dragging, drag_start_pos, current_view,
                   filtered_notes, egui_dragged, last>>

\* The application is closed and started again: NotesApp::default (lines
\* 95-116) on the notes file as it stands.  The settings file gives back
\* the auto-save setting, or its default when it cannot be read.
Restart ==
    /\ notes' = unwrap_or_default(load_notes(file))
    /\ selected' = IF notes' = <<>> THEN None ELSE Some(0)
    /\ search' = <<>>
    /\ auto_save' \in {auto_save, TRUE}
    /\ dirty' = FALSE
    /\ dragging' = None
    /\ drag_start_pos' = None
    /\ current_view' = "Notes"
    /\ egui_dragged' = None
    /\ frame.count < MaxFrames
    /\ frame' = NoFrame(frame.count + 1)
    /\ hist' = [NoHist(notes') EXCEPT !.saved = hist.saved]
    /\ UNCHANGED <<file, filtered_notes, last>>

Next ==
    \/ ClickNew \/ ClickDelete \/ ClickView \/ ClickAutoSave \/ TypeSearchBox
    \/ ClickRow \/ DragStart \/ PointerRelease \/ PressEscape
    \/ TypeTitle \/ TypeBody \/ ClickSave \/ ClickClose \/ ClickEdit
    \/ IdleFrame \/ Restart

Spec == Init /\ [][Next]_vars

-----------------------------------------------------------------------------
(* Properties of the store methods, checked under SpecStore. *)

Range(v) == {v[k] : k \in 1..Len(v)}
Count(v, x) == Cardinality({k \in 1..Len(v) : v[k] = x})
SameMultiset(a, b) ==
    /\ Len(a) = Len(b)
    /\ \A x \in Range(a) \cup Range(b) : Count(a, x) = Count(b, x)

\* C1: after any sequence of add_note and delete_selected calls (and of
\* move_note calls) from the startup state, a present selection is the index
\* of an existing note: selected = Some(i) implies i < notes.len().
C1_SelectedInRange == IsSome(selected) => Unwrap(selected) < Len(notes)

\* C1's case: a delete took the last note of a store whose selection was on
\* its last row, and notes remain.
C1_Witness ==
    /\ last.op = "delete_selected"
    /\ IsSome(last.pre.selected)
    /\ Unwrap(last.pre.selected) = Len(last.pre.notes) - 1
    /\ Len(notes) >= 1

\* C2: move_note(from, to) preserves the multiset of notes, and the note that
\* was selected before the call is the note that is selected after it (the
\* same record, hence the same id), whether it is the moved note, a note
\* between from and to, or a note outside that range.
C2_MovePreservesNotesAndSelection ==
    last.op = "move_note" =>
        /\ SameMultiset(notes, last.pre.notes)
        /\ IsSome(selected) = IsSome(last.pre.selected)
        /\ ValidIndex(last.pre.selected, last.pre.notes) =>
              /\ ValidIndex(selected, notes)
              /\ At(notes, Unwrap(selected))
                    = At(last.pre.notes, Unwrap(last.pre.selected))

\* C2's case: a real move over a selected note that is not the moved one, in
\* a store whose ids are all different, so that its index had to change.
C2_Witness ==
    /\ last.op = "move_note"
    /\ last.from < last.to /\ last.to < Len(notes)
    /\ IsSome(last.pre.selected)
    /\ Unwrap(last.pre.selected) > last.from
    /\ Unwrap(last.pre.selected) <= last.to
    /\ selected = Some(Unwrap(last.pre.selected) - 1)
    /\ Cardinality({n.id : n \in Range(notes)}) = Len(notes)

\* The store [A, B, C] (by title) with B selected, of the spec's scenario.
TitledNote(id, c) ==
    [id |-> id, title |-> <<c>>, body |-> <<>>, modified |-> 0,
     editing |-> FALSE, backup |-> None]
StoreABC ==
    [notes |-> <<TitledNote(1, "A"), TitledNote(2, "B"), TitledNote(3, "C")>>,
     selected |-> Some(1), dirty |-> FALSE, file |-> Absent, saved |-> "none"]

\* C3: move_note(from, to) is the reference relocation.  When from # to and
\* both are < notes.len(), the note formerly at from is at to, the other
\* notes keep their relative order, and dirty is set; otherwise notes,
\* selected and dirty are unchanged.  [A, B, C] with move(2, 0) is [C, A, B]
\* and a selection on B stays on B, now at index 2.
C3_MoveIsRelocation ==
    /\ last.op = "move_note" =>
          IF /\ last.from # last.to
             /\ last.from < Len(last.pre.notes)
             /\ last.to < Len(last.pre.notes)
          THEN /\ Len(notes) = Len(last.pre.notes)
               /\ At(notes, last.to) = At(last.pre.notes, last.from)
               /\ VecRemove(notes, last.to) = VecRemove(last.pre.notes, last.from)
               /\ dirty = TRUE
          ELSE /\ notes = last.pre.notes
               /\ selected = last.pre.selected
               /\ dirty = last.pre.dirty
    /\ LET r == move_note(StoreABC, 2, 0)
       IN /\ [k \in 1..Len(r.notes) |-> r.notes[k].title] = << <<"C">>, <<"A">>, <<"B">> >>
          /\ r.selected = Some(2)

\* C3's case: a note was moved across at least one other note (here from the
\* back of a three-note store to its front).
C3_Witness ==
    /\ last.op = "move_note"
    /\ last.from = 2 /\ last.to = 0
    /\ Len(notes) = 3
    /\ At(notes, 0) = At(last.pre.notes, 2)
    /\ notes # last.pre.notes

\* C4: delete_selected with a selection at index i removes exactly the note
\* at i (the others keep their order), selects the first remaining note, or
\* nothing if the store became empty, and sets dirty; deleting the only note
\* of a one-note store leaves an empty store and no selection.
C4_DeleteRemovesSelected ==
    (last.op = "delete_selected" /\ ValidIndex(last.pre.selected, last.pre.notes)) =>
        /\ notes = VecRemove(last.pre.notes, Unwrap(last.pre.selected))
        /\ Len(notes) = Len(last.pre.notes) - 1
        /\ selected = IF Len(last.pre.notes) = 1 THEN None ELSE Some(0)
        /\ Len(last.pre.notes) = 1 => notes = <<>>
        /\ dirty = TRUE

\* C4's case: the deleted note was neither the first nor the only one.
C4_Witness ==
    /\ last.op = "delete_selected"
    /\ IsSome(last.pre.selected)
    /\ Unwrap(last.pre.selected) >= 1
    /\ Len(notes) >= 1
    /\ selected = Some(0)

\* C5: add_note inserts exactly one new note (empty body, not editing, no
\* backup) at index 0, leaves every earlier note unchanged and in order, one
\* position later, selects index 0 and sets dirty.
C5_AddInsertsAtFront ==
    last.op = "add_note" =>
        /\ Len(notes) = Len(last.pre.notes) + 1
        /\ SubSeq(notes, 2, Len(notes)) = last.pre.notes
        /\ At(notes, 0).id = last.id
        /\ At(notes, 0).body = <<>>
        /\ At(notes, 0).editing = FALSE
        /\ At(notes, 0).backup = None
        /\ selected = Some(0)
        /\ dirty = TRUE

\* C5's case: a note was added to a store that already held notes.
C5_Witness ==
    /\ last.op = "add_note"
    /\ Len(last.pre.notes) >= 2
    /\ Len(notes) = Len(last.pre.notes) + 1

\* C6: after any sequence of add, delete and move, no two notes of the store
\* have the same id.
C6_UniqueIds ==
    \A i, j \in 1..Len(notes) : notes[i].id = notes[j].id => i = j

-----------------------------------------------------------------------------
(* The property of the list filter, checked under SpecFilter. *)

EqIgnoreCase(a, b) ==
    /\ Len(a) = Len(b)
    /\ \A k \in 1..Len(a) : LowerChar(a[k]) = LowerChar(b[k])

\* q occurs in text, letter case ignored.
OccursIgnoreCase(text, q) ==
    \E lo \in 1..(Len(text) + 1), hi \in 0..Len(text) :
        /\ hi - lo + 1 = Len(q)
        /\ EqIgnoreCase(SubSeq(text, lo, hi), q)

\* C7: the filtered list is exactly the subsequence, in store order, of the
\* (original index, title) entries of the notes whose title or body contains
\* the query, letter case ignored; the empty query returns all notes.
C7_FilterIsMatchingSubsequence ==
    frame.op = "render" =>
        /\ \A k, l \in 1..Len(filtered_notes) :
              k < l => filtered_notes[k][1] < filtered_notes[l][1]
        /\ \A i \in 0..(Len(notes) - 1) :
              (\E k \in 1..Len(filtered_notes) : filtered_notes[k][1] = i)
                 <=> \/ OccursIgnoreCase(At(notes, i).title, search)
                     \/ OccursIgnoreCase(At(notes, i).body, search)
        /\ \A k \in 1..Len(filtered_notes) :
              /\ filtered_notes[k][1] \in 0..(Len(notes) - 1)
              /\ filtered_notes[k][2] = At(notes, filtered_notes[k][1]).title
        /\ search = <<>> =>
              [k \in 1..Len(filtered_notes) |-> filtered_notes[k][1]]
                 = [k \in 1..Len(notes) |-> k - 1]

\* C7's case: a query in another letter case than the text it matches drops
\* the first note and keeps the second, under its original index 1.
C7_Witness ==
    /\ frame.op = "render"
    /\ search = <<"B", "A">>
    /\ Len(notes) = 2
    /\ Len(filtered_notes) = 1
    /\ filtered_notes[1][1] = 1
    /\ At(notes, 1).body = <<"B", "a">>

-----------------------------------------------------------------------------
(* Properties of the frames of update(), checked under Spec. *)

\* C8: in every reachable state and for every note, backup is Some only
\* while editing is true; the frame of an Edit click leaves the selected
\* note editing with a backup of its body, and the frame of a Save or Close
\* click leaves it not editing and without backup.
C8_BackupOnlyWhileEditing ==
    /\ \A k \in 1..Len(notes) : IsSome(notes[k].backup) => notes[k].editing
    /\ frame.op = "Edit" =>
          /\ SelectedNote(Self).editing
          /\ SelectedNote(Self).backup = Some(SelectedNote(Self).body)
    /\ frame.op \in {"Save", "Close"} =>
          /\ ~SelectedNote(Self).editing
          /\ SelectedNote(Self).backup = None

\* C8's case: Close was clicked on a note that had a backup, while another
\* note is still being edited and keeps its own.
C8_Witness ==
    /\ frame.op = "Close"
    /\ \E k \in 1..Len(notes) : notes[k].editing /\ IsSome(notes[k].backup)

\* C9: with auto-save enabled, every frame that reaches its end with dirty
\* set attempts a save; a save that succeeds leaves dirty clear and the file
\* holding the notes in memory; a save that fails leaves dirty set and the
\* notes as they were; so a frame that begins dirty attempts the save again
\* (at its end, unless the Save button's own save already succeeded).
C9_AutoSaveRetries ==
    /\ (frame.op # "default" /\ auto_save /\ frame.tail_dirty) =>
          frame.auto_save # "none"
    /\ frame.auto_save = "ok" =>
          /\ ~dirty
          /\ file = [kind |-> "json", data |-> to_string_pretty(notes)]
          /\ load_notes(file) = Ok(notes)
    /\ frame.auto_save = "failed" => dirty /\ frame.notes_kept
    /\ (frame.op # "default" /\ auto_save /\ frame.start_dirty) =>
          \/ frame.auto_save # "none"
          \/ frame.click_save = "ok"

\* C9's case: a frame began dirty (the save of an earlier frame had failed)
\* and the save attempted at its end succeeded.
C9_Witness ==
    /\ frame.start_dirty
    /\ frame.auto_save = "ok"
    /\ notes # <<>>
    /\ ~dirty

\* The (id, title, body, modified) tuples of a note collection.
Tuples(ns) ==
    [k \in 1..Len(ns) |-> <<ns[k].id, ns[k].title, ns[k].body, ns[k].modified>>]

\* The notes in memory differ from the notes last written to or loaded from
\* the notes file (a file a failed write truncated holds none to compare).
Diverged ==
    IF file.kind = "json" THEN Tuples(from_str(file.data)) # Tuples(notes)
    ELSE IF file.kind = "absent" THEN notes # <<>>
    ELSE FALSE

\* C10: in every reachable state, if the notes in memory differ from the
\* notes last persisted, the dirty flag is set.
C10_DirtyMarksDivergence == Diverged => dirty

-----------------------------------------------------------------------------
(* The drag gesture, checked under Spec. *)

\* The ids of a note collection, in order.
Ids(ns) == [k \in 1..Len(ns) |-> ns[k].id]

\* The list position whose row holds the pointer, among n rows.
RowsUnder(n, pos) == {k \in 0..(n - 1) : target_rect_contains(k, pos)}

\* The order the stated rule gives when the row at from of the order ord is
\* dropped at pos: above the first row it goes to the start, below the last
\* row to the end, over another row before or after that row by the side of
\* the row's vertical center the pointer is on.  None where the rule names
\* no target (between two rows, beside the list, over the dragged row).
StatedDrop(ord, from, pos) ==
    LET n == Len(ord)
        rest == VecRemove(ord, from)
        under == RowsUnder(n, pos)
    IN IF pos.x < 0 \/ pos.x > ListWidth THEN None
       ELSE IF pos.y < RowOffset THEN Some(VecInsert(rest, 0, At(ord, from)))
       ELSE IF pos.y > RowOffset + (n - 1) * RowPitch + RowHeight
       THEN Some(VecInsert(rest, n - 1, At(ord, from)))
       ELSE IF under = {} \/ under = {from} THEN None
       ELSE LET k == CHOOSE r \in under : r # from
                at == IF k > from THEN k - 1 ELSE k
                center == RowOffset + k * RowPitch + RowHeight \div 2
            IN IF pos.y < center
               THEN Some(VecInsert(rest, at, At(ord, from)))
               ELSE Some(VecInsert(rest, at + 1, At(ord, from)))

\* C11: the frame of a pointer release while dragging leaves the drag state
\* idle (dragging and drag_start_pos none), and the dragged note where the
\* stated rule puts it: before or after the row under the pointer by the
\* side of the row's vertical center, at the start when the pointer is
\* above the first row, at the end when it is below the last row.
C11_DropResolvesTarget ==
    (frame.op = "Drop" /\ IsSome(frame.pointer)) =>
        LET g == Unwrap(frame.gesture)
            stated == StatedDrop(g.order, g.origin, Unwrap(frame.pointer))
        IN /\ dragging = None
           /\ drag_start_pos = None
           /\ IsSome(stated) => Ids(notes) = Unwrap(stated)

-----------------------------------------------------------------------------
(* The notes file across saves and restarts, checked under Spec. *)

\* The last save of the frame, by the Save button or by the auto-save,
\* succeeded.
SavedInFrame ==
    \/ frame.auto_save = "ok"
    \/ frame.click_save = "ok" /\ frame.auto_save = "none"

\* C13: after a successful save, load_notes on the notes file succeeds and
\* gives the (id, title, body, modified) tuples of the notes that were in
\* memory at the save, in the same order; a startup on that file has these
\* tuples, in that order, as its store.
C13_SaveLoadRoundTrip ==
    /\ SavedInFrame =>
          /\ hist.saved = Some(notes)
          /\ load_notes(file).ok
          /\ Tuples(load_notes(file).val) = Tuples(notes)
    /\ (frame.op = "default" /\ IsSome(hist.saved)) =>
          Tuples(notes) = Tuples(Unwrap(hist.saved))

\* C13's case: a startup on a file that a save of this run wrote, with more
\* than one note, of different times, in it.
C13_Witness ==
    /\ frame.op = "default" /\ frame.count > 0
    /\ IsSome(hist.saved)
    /\ Len(notes) >= 2
    /\ notes # SavedNotes
    /\ \E j, k \in 1..Len(notes) : notes[j].modified # notes[k].modified

\* C14: at startup, load_notes on a missing notes file returns Ok with no
\* notes; on a file that cannot be read or parsed it returns an Err, which
\* unwrap_or_default turns into no notes; either way the application starts
\* with an empty store, no selection and dirty clear.
C14_LoadNeverAborts ==
    frame.op = "default" =>
        /\ file.kind = "absent" => load_notes(file) = Ok(<<>>)
        /\ file.kind = "malformed" =>
              /\ ~load_notes(file).ok
              /\ unwrap_or_default(load_notes(file)) = <<>>
        /\ file.kind # "json" =>
              notes = <<>> /\ selected = None /\ ~dirty

\* C14's case: the application starts again on a notes file that a failed
\* write left truncated.
C14_Witness ==
    /\ frame.op = "default" /\ frame.count > 0
    /\ file.kind = "malformed"
    /\ notes = <<>>

-----------------------------------------------------------------------------
(* The editor's Close, and the selection, checked under Spec. *)

\* C15: the frame of a Close click on a note on which Edit was clicked
\* earlier in the run, whatever body edits, selections of other notes, adds,
\* deletes and moves came in between, leaves the note with the body it had
\* at the Edit click, and not in edit mode.
C15_CloseRestoresBody ==
    (frame.op = "Close" /\ IsSome(frame.undo)) =>
        /\ SelectedNote(Self).body = Unwrap(frame.undo).body
        /\ ~SelectedNote(Self).editing

\* C15's case: Close on a note whose body was edited after the Edit click,
\* and which an add or a move has since taken to another place in the list.
C15_Witness ==
    /\ frame.op = "Close" /\ IsSome(frame.undo)
    /\ Unwrap(frame.undo).typed # Unwrap(frame.undo).body
    /\ Unwrap(frame.undo).at # Unwrap(selected)

\* C16: in every state reachable from startup by frames of the application
\* (New, Delete, a drag and its drop, a click on a row, and the others), the
\* selection is none exactly when the store is empty, and otherwise is an
\* index below notes.len().
C16_SelectionIffNonEmpty ==
    /\ selected = None <=> notes = <<>>
    /\ IsSome(selected) => Unwrap(selected) < Len(notes)

\* C16's case: a drop moved a note in a store that adds or deletes have
\* changed in size, and the selection is on the last row.
C16_Witness ==
    /\ frame.op = "Drop" /\ IsSome(frame.move)
    /\ Len(notes) # Len(SavedNotes)
    /\ Len(notes) >= 2
    /\ selected = Some(Len(notes) - 1)

====
